---- MODULE Spec2Model ----
(***************************************************************************)
(* mod_soundtouch: per-session SoundTouch state (st_session_data) kept in  *)
(* the channel's private slot ST_PRIVATE_KEY, the streaming entry point    *)
(* soundtouch_speed_process, the hangup state handler st_on_hangup and the *)
(* "soundtouch" API command (enable, disable, tempo), for one session.      *)
(*                                                                         *)
(* Spec and FairSpec run the operations one after the other; ApiSpec adds  *)
(* the whole API command and a configuration file; ConcSpec runs disable    *)
(* and the hangup handler on threads of their own beside a process call;   *)
(* ConvSpec takes one sample through the two sample converters.            *)
(*                                                                         *)
(* The SoundTouch engine is an external library: the model keeps what was  *)
(* pushed into it (sample rate, channels, tempo) and the number of         *)
(* per-channel output frames it holds ready; how many frames a putSamples  *)
(* makes ready and how many a receiveSamples hands back (never more than   *)
(* requested, never more than ready) are nondeterministic.                 *)
(*                                                                         *)
(* Tempo multipliers are kept in hundredths (1.25 is 125): every value     *)
(* 1.0f + 0.25f * speed for a small integer speed is exact in binary32.    *)
(***************************************************************************)
EXTENDS Integers, Sequences, FiniteSets, TLC

\* ---- program constants -------------------------------------------------
ST_BUFFER_SAMPLES == 8192
ST_MIN_SPEED == -2
ST_MAX_SPEED == 2
NULL == 0

\* ---- bounds of the model ------------------------------------------------
\* number of st_session_data objects malloc hands out over the session
MaxStates == 2
\* receiveSamples may return 0 frames although asked for some only while the
\* engine holds at most this many frames ready
MaxStalled == 1

\* ---- inputs of soundtouch_speed_process ---------------------------------
SpeedArgs == {-3, 0, 1, 3}
RateArgs == {8000, 16000}
ChannelArgs == {0, 3, 8193}
InlenArgs == {0, 8193}

VARIABLES
    private,        \* channel private slot ST_PRIVATE_KEY: NULL or an object id
    heap,           \* id -> st_session_data object (with its SoundTouch engine)
    handlers,       \* calls of switch_channel_add_state_handler on the channel
    use_soundtouch, \* channel variable use_soundtouch
    pc,             \* position inside soundtouch_speed_process
    sd,             \* local sd of soundtouch_speed_process
    speed,          \* argument speed (after the clamp)
    rate,           \* argument rate
    channels,       \* argument channels (after the 0 -> 1 correction)
    inlen,          \* argument inlen
    done,           \* local done of the ingest loop
    outbytes,       \* bytes written to sp_audio_buffer by the current call
    status,         \* status returned by the last operation
    hist,           \* observation of the current/last operation (see Hist0)
    soundtouch_tempo, \* channel variable soundtouch_tempo
    globals,        \* module globals filled by do_config
    rwlocks,        \* read locks the API function holds on the session
    conv,           \* one sample on its way through the converters
    thr             \* locals of disable / st_on_hangup running on other threads

vars == <<private, heap, handlers, use_soundtouch, pc, sd, speed, rate,
          channels, inlen, done, outbytes, status, hist,
          soundtouch_tempo, globals, rwlocks, conv, thr>>

\* what soundtouch_speed_process and st_on_hangup never touch
outside == <<soundtouch_tempo, globals, rwlocks, conv, thr>>

\* the program's own state, without the observation record
progvars == <<private, heap, handlers, use_soundtouch>>

\* the running call of soundtouch_speed_process and what was observed of it
callvars == <<pc, sd, speed, rate, channels, inlen, done, outbytes, status, hist>>

Min(a, b) == IF a < b THEN a ELSE b

Ids == 1..MaxStates

\* ---- st_session_data ----------------------------------------------------
\* memory never handed out / released: no field holds anything
Blank(m, nfree, ndel) ==
    [mem |-> m, frees |-> nfree, st |-> "null", deletes |-> ndel,
     current_speed |-> 0, rate |-> 0, channels |-> 0,
     e_rate |-> 0, e_channels |-> 0, e_tempo |-> 0, ready |-> 0]

\* as NewState, with channels initialised to 1 instead of the sentinel 0
NewStateOneChannel ==
    [Blank("live", 0, 0) EXCEPT !.st = "live", !.channels = 1]

\* malloc + new SoundTouch() + the three sentinel assignments
NewState ==
    [Blank("live", 0, 0) EXCEPT !.st = "live"]

\* the ids malloc may return: the lowest one never handed out
FreshIds == {i \in Ids : heap[i].mem = "unalloc" /\ \A j \in 1..(i-1) : heap[j].mem # "unalloc"}

\* as st_session_data_destroy, without free(sd)
st_session_data_destroy_no_free(h, p) ==
    IF p = NULL THEN {h}
    ELSE {[h EXCEPT ![p].st = "null",
                    ![p].deletes = @ + (IF h[p].st = "live" THEN 1 ELSE 0)]}

\* st_session_data_destroy(sd): the heaps it may leave. On a live object the
\* engine is deleted and the object freed. On an object already freed the read
\* of sd->st is a read of released memory (either outcome), and free(sd)
\* releases it a second time.
st_session_data_destroy(h, p) ==
    IF p = NULL THEN {h}
    ELSE IF h[p].mem = "live"
         THEN {[h EXCEPT ![p] = Blank("freed", @.frees + 1,
                                      @.deletes + (IF @.st = "live" THEN 1 ELSE 0))]}
         ELSE {[h EXCEPT ![p] = Blank("freed", @.frees + 1, @.deletes + d)] : d \in {0, 1}}

\* ---- observation ---------------------------------------------------------
NoTriple == <<>>
Triple(r, c, s) == <<r, c, s>>

\* ---- arguments of the API command ----------------------------------------
\* argv[2] of "soundtouch tempo <uuid> <value>": a decimal numeral (its value
\* in ten-thousandths), a word that is no numeral, the word "nan", or absent
Dec(v) == [kind |-> "dec", v |-> v]
Word == [kind |-> "word", v |-> 0]
NanWord == [kind |-> "nan", v |-> 0]
NoTok == [kind |-> "none", v |-> 0]

Hist0 ==
    [op |-> "none",         \* operation now running or last completed
     prevOp |-> "none",     \* the operation before it
     created |-> FALSE,     \* the process call created the state
     speedArg |-> 0,        \* the speed argument as passed
     nconfig |-> 0,         \* setSampleRate/setChannels/setTempo rounds in the call
     tempo |-> 0,           \* tempo given to setTempo in the call (0: none)
     nput |-> 0,            \* putSamples calls in the call
     frames |-> 0,          \* per-channel frames passed to putSamples in the call
     maxbatch |-> 0,        \* largest chunk of the call
     same |-> FALSE,        \* the call repeats the previous call's triple
     last |-> NoTriple,     \* triple of the last completed call since creation
     readyAtDrain |-> 0,    \* frames ready when the drain phase began
     pulled |-> 0,          \* frames received in the drain phase
     niter |-> 0,           \* drain iterations
     maxreq |-> 0,          \* largest frame count asked of receiveSamples
     maxtotal |-> 0,        \* largest total = got * channels converted into obuf
     stop |-> "",           \* why the drain loop ended: "empty" or "zero"
     goneId |-> NULL,       \* state destroyed by the last disable/hangup
     goneTriple |-> NoTriple, \* ... and what had last been applied to it
     cmd |-> "",            \* argv[0] of the last API command ("": none)
     uuid |-> "",           \* its argv[1] ("": none)
     val |-> NoTok,         \* its argv[2]
     reply |-> "",          \* what it wrote to the stream: "+OK", "-ERR", "-USAGE"
     located |-> 0,         \* sessions it located (and read-locked)
     unlocked |-> 0         \* switch_core_session_rwunlock calls it made
    ]

\* ---- module globals, do_config (lines 277-313) ---------------------------
\* a float holding a tempo: a finite value in ten-thousandths, or not a number
Fin(v) == [class |-> "fin", v |-> v]
NaN == [class |-> "nan", v |-> 0]

\* the literals 0.5f and 2.0f, in ten-thousandths
TempoFloor == 5000
TempoCeil == 20000

\* no other thread is inside disable or st_on_hangup
NoThreads == [t \in {"disable", "hangup"} |-> [at |-> "out", sd |-> NULL]]

\* no sample is being converted
NoConv == [op |-> "none", s |-> 0, f |-> 0, o |-> 0]

\* a session with no private ST_PRIVATE_KEY, no variable set, no call running
InitSession ==
    /\ private = NULL
    /\ heap = [i \in Ids |-> Blank("unalloc", 0, 0)]
    /\ handlers = 0
    /\ use_soundtouch = "unset"
    /\ pc = "idle"
    /\ sd = NULL
    /\ speed = 0
    /\ rate = 0
    /\ channels = 0
    /\ inlen = 0
    /\ done = 0
    /\ outbytes = 0
    /\ status = "none"
    /\ hist = Hist0
    /\ soundtouch_tempo = "unset"
    /\ rwlocks = 0
    /\ thr = NoThreads

\* lines 288-290: the values do_config starts from
DefaultGlobals ==
    [default_enabled |-> TRUE, min_tempo |-> Fin(TempoFloor),
     max_tempo |-> Fin(TempoCeil)]

\* the module loaded without a soundtouch.conf
Init ==
    /\ InitSession
    /\ globals = DefaultGlobals
    /\ conv = NoConv

\* as Clamp, without the lower bound
ClampUpperOnly(s) ==
    IF s > ST_MAX_SPEED THEN ST_MAX_SPEED ELSE s

Clamp(s) ==
    IF s > ST_MAX_SPEED THEN ST_MAX_SPEED
    ELSE IF s < ST_MIN_SPEED THEN ST_MIN_SPEED
    ELSE s

NormChannels(c) == IF c = 0 THEN 1 ELSE c

\* tempo = 1.0f + (0.25f * (float)speed), in hundredths
TempoOf(s) == 100 + 25 * s

\* the triple a call is said to ask for: rate, channels with 0 replaced by 1,
\* speed limited to -2..2
AskedTriple(r, c, s) ==
    <<r, IF c = 0 THEN 1 ELSE c, IF s > 2 THEN 2 ELSE IF s < -2 THEN -2 ELSE s>>

\* observation at the entry of a process call
EnterHist(isNew, sameAsLast, s) ==
    [hist EXCEPT !.op = "process", !.prevOp = hist.op, !.created = isNew,
                 !.speedArg = s, !.maxreq = 0, !.maxtotal = 0,
                 !.nconfig = 0, !.tempo = 0, !.nput = 0, !.frames = 0,
                 !.maxbatch = 0,
                 !.same = sameAsLast,
                 !.readyAtDrain = 0, !.pulled = 0, !.niter = 0, !.stop = "",
                 !.goneId = IF isNew THEN hist.goneId ELSE NULL,
                 !.goneTriple = IF isNew THEN hist.goneTriple ELSE NoTriple,
                 !.cmd = "", !.uuid = "", !.val = NoTok, !.reply = "",
                 !.located = 0, !.unlocked = 0]

\* no call of soundtouch_speed_process is in progress: its locals hold nothing
NoCall ==
    /\ sd' = NULL
    /\ speed' = 0
    /\ rate' = 0
    /\ channels' = 0
    /\ inlen' = 0
    /\ done' = 0
    /\ outbytes' = 0

\* ---- soundtouch_speed_process, lines 120-146 ----------------------------
\* entry with state present: normalise channels, clamp speed
ProcessEnter(s, r, c, n) ==
    /\ pc = "idle"
    /\ private # NULL
    /\ sd' = private
    /\ speed' = Clamp(s)
    /\ rate' = r
    /\ channels' = NormChannels(c)
    /\ inlen' = n
    /\ done' = 0
    /\ outbytes' = 0
    /\ pc' = "config"
    /\ hist' = EnterHist(FALSE, hist.last = AskedTriple(r, c, s), s)
    /\ UNCHANGED <<private, heap, handlers, use_soundtouch, status>>
    /\ UNCHANGED outside

\* entry without state: malloc succeeds, the state is created, stored in the
\* slot and the state handler table is added to the channel
ProcessCreate(s, r, c, n) ==
    /\ pc = "idle"
    /\ private = NULL
    /\ \E id \in FreshIds :
         /\ heap' = [heap EXCEPT ![id] = NewState]
         /\ private' = id
         /\ sd' = id
    /\ handlers' = handlers + 1
    /\ speed' = Clamp(s)
    /\ rate' = r
    /\ channels' = NormChannels(c)
    /\ inlen' = n
    /\ done' = 0
    /\ outbytes' = 0
    /\ pc' = "config"
    /\ hist' = EnterHist(TRUE, FALSE, s)
    /\ UNCHANGED <<use_soundtouch, status>>
    /\ UNCHANGED outside

\* as ProcessMemErr, with the state handler table added before the malloc
ProcessMemErrHandlerAdded(s, r, c, n) ==
    /\ pc = "idle"
    /\ private = NULL
    /\ NoCall
    /\ handlers' = handlers + 1
    /\ status' = "MEMERR"
    /\ hist' = [EnterHist(FALSE, FALSE, s) EXCEPT !.goneId = hist.goneId,
                                               !.goneTriple = hist.goneTriple]
    /\ UNCHANGED <<private, heap, use_soundtouch, pc>>
    /\ UNCHANGED outside

\* entry without state: malloc fails
ProcessMemErr(s, r, c, n) ==
    /\ pc = "idle"
    /\ private = NULL
    /\ NoCall
    /\ status' = "MEMERR"
    /\ hist' = [EnterHist(FALSE, FALSE, s) EXCEPT !.goneId = hist.goneId,
                                               !.goneTriple = hist.goneTriple]
    /\ UNCHANGED <<private, heap, handlers, use_soundtouch, pc>>
    /\ UNCHANGED outside

\* ---- lines 148-158: reconfigure if settings changed -----------------------
\* as NeedsReconfig, without the comparison of the rates
NeedsReconfigNoRate(o) ==
    o.channels # channels \/ o.current_speed # speed

NeedsReconfig(o) ==
    o.rate # rate \/ o.channels # channels \/ o.current_speed # speed

\* as Reconfigured, without sd->rate = rate
ReconfiguredStaleRate(o) ==
    [o EXCEPT !.e_rate = rate, !.e_channels = channels, !.e_tempo = TempoOf(speed),
              !.channels = channels, !.current_speed = speed]

Reconfigured(o) ==
    [o EXCEPT !.e_rate = rate, !.e_channels = channels, !.e_tempo = TempoOf(speed),
              !.rate = rate, !.channels = channels, !.current_speed = speed]

Configure ==
    /\ pc = "config"
    /\ IF NeedsReconfig(heap[sd])
       THEN /\ heap' = [heap EXCEPT ![sd] = Reconfigured(@)]
            /\ hist' = [hist EXCEPT !.nconfig = @ + 1, !.tempo = TempoOf(speed)]
       ELSE UNCHANGED <<heap, hist>>
    /\ pc' = "ingest"
    /\ UNCHANGED <<private, handlers, use_soundtouch, sd, speed, rate, channels,
                   inlen, done, outbytes, status>>
    /\ UNCHANGED outside

\* ---- lines 160-175: ingest loop -------------------------------------------
Batch == Min(inlen - done, ST_BUFFER_SAMPLES)

\* frame count handed to putSamples: (uint32_t)(batch / channels)
PutFrames(batch) == batch \div channels

\* frames a putSamples of n frames may make ready: none yet, or as many
EngineYield(n) == {0, n}

IngestChunk ==
    /\ pc = "ingest"
    /\ done < inlen
    /\ \E y \in EngineYield(PutFrames(Batch)) :
         heap' = [heap EXCEPT ![sd].ready = @ + y]
    /\ done' = done + Batch
    /\ hist' = [hist EXCEPT !.nput = @ + 1, !.frames = @ + PutFrames(Batch),
                            !.maxbatch = IF Batch > @ THEN Batch ELSE @]
    /\ UNCHANGED <<private, handlers, use_soundtouch, pc, sd, speed, rate,
                   channels, inlen, outbytes, status>>
    /\ UNCHANGED outside

IngestDone ==
    /\ pc = "ingest"
    /\ ~(done < inlen)
    /\ pc' = "drain"
    /\ hist' = [hist EXCEPT !.readyAtDrain = heap[sd].ready]
    /\ UNCHANGED <<private, heap, handlers, use_soundtouch, sd, speed, rate,
                   channels, inlen, done, outbytes, status>>
    /\ UNCHANGED outside

\* ---- lines 177-203: drain loop --------------------------------------------
\* as MaxPerChannel, without the division by the channel count
MaxPerChannelUndivided == ST_BUFFER_SAMPLES

MaxPerChannel == ST_BUFFER_SAMPLES \div channels

\* avail after the cap
Avail == Min(heap[sd].ready, MaxPerChannel)

\* what receiveSamples(fbuf, req) may return from an engine holding r frames
ReceiveOutcomes(req, r) ==
    LET m == Min(req, r) IN {0, m}

\* as WriteBytes, with total = got (the channel count forgotten)
WriteBytesOneChannel(got) == got * 2

\* bytes of one switch_buffer_write: total * sizeof(int16_t), total = got * channels
WriteBytes(got) == got * channels * 2

\* an iteration that received frames: convert and switch_buffer_write
DrainIter ==
    /\ pc = "drain"
    /\ heap[sd].ready # 0
    /\ \E got \in ReceiveOutcomes(Avail, heap[sd].ready) :
         /\ got # 0
         /\ heap' = [heap EXCEPT ![sd].ready = @ - got]
         /\ outbytes' = outbytes + WriteBytes(got)
         /\ hist' = [hist EXCEPT !.pulled = @ + got, !.niter = @ + 1,
                                 !.maxreq = IF Avail > @ THEN Avail ELSE @,
                                 !.maxtotal = IF got * channels > @
                                              THEN got * channels ELSE @]
    /\ UNCHANGED <<private, handlers, use_soundtouch, pc, sd, speed, rate,
                   channels, inlen, done, status>>
    /\ UNCHANGED outside

\* return SWITCH_STATUS_SUCCESS
Returned(why) ==
    /\ pc' = "idle"
    /\ status' = "SUCCESS"
    /\ hist' = [hist EXCEPT !.stop = why, !.last = Triple(rate, channels, speed)]
    /\ UNCHANGED <<private, heap, handlers, use_soundtouch, sd, speed, rate,
                   channels, inlen, done, outbytes>>
    /\ UNCHANGED outside

\* as DrainZero, without the break: the loop goes round again (the observation
\* notes the zero pull and the new round in turn)
DrainZeroSpin ==
    /\ pc = "drain"
    /\ heap[sd].ready # 0
    /\ 0 \in ReceiveOutcomes(Avail, heap[sd].ready)
    /\ Avail = 0 \/ heap[sd].ready <= MaxStalled
    /\ hist' = [hist EXCEPT !.stop = IF @ = "zero" THEN "" ELSE "zero"]
    /\ UNCHANGED <<private, heap, handlers, use_soundtouch, pc, sd, speed, rate,
                   channels, inlen, done, outbytes, status>>
    /\ UNCHANGED outside

\* numSamples() == 0: break
DrainEmpty ==
    /\ pc = "drain"
    /\ heap[sd].ready = 0
    /\ Returned("empty")

\* receiveSamples returned 0: break
DrainZero ==
    /\ pc = "drain"
    /\ heap[sd].ready # 0
    /\ 0 \in ReceiveOutcomes(Avail, heap[sd].ready)
    /\ Avail = 0 \/ heap[sd].ready <= MaxStalled
    /\ Returned("zero")

\* ---- destruction of the state in the slot (lines 80-85 and 245-249) -------
\* as DropState, without switch_channel_set_private(channel, ST_PRIVATE_KEY, NULL)
DropStateKeepSlot ==
    /\ UNCHANGED private
    /\ heap' \in st_session_data_destroy(heap, private)

DropState ==
    /\ private' = NULL
    /\ heap' \in st_session_data_destroy(heap, private)

EndHist(name) ==
    [Hist0 EXCEPT !.op = name, !.prevOp = hist.op,
                  !.goneId = private,
                  !.goneTriple = IF private = NULL THEN NoTriple ELSE hist.last]

\* ---- st_on_hangup, lines 77-88 --------------------------------------------
Hangup ==
    /\ pc = "idle"
    /\ IF private # NULL THEN DropState ELSE UNCHANGED <<private, heap>>
    /\ status' = "SUCCESS"
    /\ hist' = EndHist("hangup")
    /\ NoCall
    /\ UNCHANGED <<handlers, use_soundtouch, pc>>
    /\ UNCHANGED outside

\* ---- soundtouch_api_function, lines 209-275 -------------------------------
\* the uuid of the session modelled; switch_core_session_locate finds no other
SessionUuid == "uuid-1"

\* argc after switch_separate_string: the arguments present
Argc(name, uuid, val) ==
    IF name = "" THEN 0 ELSE IF uuid = "" THEN 1 ELSE IF val = NoTok THEN 2 ELSE 3

\* (float)atof(argv[2]): a numeral gives its value, a word that is no numeral
\* gives 0.0, "nan" gives a NaN
atof(tok) ==
    IF tok.kind = "dec" THEN Fin(tok.v)
    ELSE IF tok.kind = "nan" THEN NaN
    ELSE Fin(0)

\* a < b on floats: false as soon as one side is a NaN
FLess(a, b) == a.class = "fin" /\ b.class = "fin" /\ a.v < b.v

\* if (tempo_val < 0.5f) tempo_val = 0.5f; if (tempo_val > 2.0f) tempo_val = 2.0f
ClampTempo(x) ==
    LET y == IF FLess(x, Fin(TempoFloor)) THEN Fin(TempoFloor) ELSE x
    IN  IF FLess(Fin(TempoCeil), y) THEN Fin(TempoCeil) ELSE y

\* three digits of a number below 1000
Digits3(d) ==
    IF d < 10 THEN "00" \o ToString(d)
    ELSE IF d < 100 THEN "0" \o ToString(d)
    ELSE ToString(d)

\* snprintf "%.3f" of a float that is not negative: rounded to the nearest
\* thousandth (no value used lies halfway between two), "nan" for a NaN
Fmt3(x) ==
    IF x.class = "nan" THEN "nan"
    ELSE LET th == (x.v + 5) \div 10
         IN  ToString(th \div 1000) \o "." \o Digits3(th % 1000)

\* observation of an API command
ApiHist(kind, name, uuid, val, reply, nloc, nunl) ==
    [Hist0 EXCEPT !.op = kind, !.prevOp = hist.op, !.last = hist.last,
                  !.cmd = name, !.uuid = uuid, !.val = val, !.reply = reply,
                  !.located = nloc, !.unlocked = nunl]

\* what every branch of the command leaves alone
ApiFrame ==
    /\ pc = "idle"
    /\ NoCall
    /\ UNCHANGED <<handlers, pc, globals, conv, thr>>

\* as Release, with the command leaving through done without the rwunlock
ReleaseSkipped == [held |-> rwlocks + 1, unlocked |-> 0]

\* line 270, after the locate of line 231 took a read lock: the locks held
\* when the command returns, and the rwunlock calls made
Release == [held |-> (rwlocks + 1) - 1, unlocked |-> 1]

\* lines 218-229: empty command or fewer than two arguments
Usage(name, uuid, val) ==
    /\ ApiFrame
    /\ status' = "SUCCESS"
    /\ hist' = ApiHist("usage", name, uuid, val, "-USAGE", 0, 0)
    /\ UNCHANGED <<private, heap, use_soundtouch, soundtouch_tempo, rwlocks>>

\* as NotFound, with use_soundtouch set before the lookup
NotFoundEnabling(name, uuid, val) ==
    /\ ApiFrame
    /\ use_soundtouch' = "true"
    /\ status' = "SUCCESS"
    /\ hist' = ApiHist("notfound", name, uuid, val, "-ERR", 0, 0)
    /\ UNCHANGED <<private, heap, soundtouch_tempo, rwlocks>>

\* lines 231-234: switch_core_session_locate returned NULL
NotFound(name, uuid, val) ==
    /\ ApiFrame
    /\ status' = "SUCCESS"
    /\ hist' = ApiHist("notfound", name, uuid, val, "-ERR", 0, 0)
    /\ UNCHANGED <<private, heap, use_soundtouch, soundtouch_tempo, rwlocks>>

\* as Enable, with the state in the slot destroyed as disable does
EnableDropping(uuid) ==
    /\ ApiFrame
    /\ use_soundtouch' = "true"
    /\ IF private # NULL THEN DropState ELSE UNCHANGED <<private, heap>>
    /\ rwlocks' = Release.held
    /\ status' = "SUCCESS"
    /\ hist' = ApiHist("enable", "enable", uuid, NoTok, "+OK", 1, Release.unlocked)
    /\ UNCHANGED soundtouch_tempo

\* lines 238-240: "enable <uuid>"
Enable(uuid) ==
    /\ ApiFrame
    /\ use_soundtouch' = "true"
    /\ rwlocks' = Release.held
    /\ status' = "SUCCESS"
    /\ hist' = ApiHist("enable", "enable", uuid, NoTok, "+OK", 1, Release.unlocked)
    /\ UNCHANGED <<private, heap, soundtouch_tempo>>

\* lines 241-251: "disable <uuid>"
Disable ==
    /\ pc = "idle"
    /\ use_soundtouch' = "false"
    /\ IF private # NULL THEN DropState ELSE UNCHANGED <<private, heap>>
    /\ rwlocks' = Release.held
    /\ status' = "SUCCESS"
    /\ hist' = [EndHist("disable") EXCEPT !.cmd = "disable", !.uuid = SessionUuid,
                                          !.reply = "+OK", !.located = 1,
                                          !.unlocked = Release.unlocked]
    /\ NoCall
    /\ UNCHANGED <<handlers, pc>>
    /\ UNCHANGED <<soundtouch_tempo, globals, conv, thr>>

\* lines 253-254: "tempo <uuid>" without a value
TempoUsage(uuid) ==
    /\ ApiFrame
    /\ rwlocks' = Release.held
    /\ status' = "SUCCESS"
    /\ hist' = ApiHist("usage", "tempo", uuid, NoTok, "-USAGE", 1, Release.unlocked)
    /\ UNCHANGED <<private, heap, use_soundtouch, soundtouch_tempo>>

\* lines 255-264: "tempo <uuid> <value>"
Tempo(uuid, val) ==
    /\ ApiFrame
    /\ soundtouch_tempo' = Fmt3(ClampTempo(atof(val)))
    /\ use_soundtouch' = "true"
    /\ rwlocks' = Release.held
    /\ status' = "SUCCESS"
    /\ hist' = ApiHist("tempo", "tempo", uuid, val, "+OK", 1, Release.unlocked)
    /\ UNCHANGED <<private, heap>>

\* as Unknown, without status = SWITCH_STATUS_FALSE
UnknownSuccess(name, uuid, val) ==
    /\ ApiFrame
    /\ rwlocks' = Release.held
    /\ status' = "SUCCESS"
    /\ hist' = ApiHist("unknown", name, uuid, val, "-ERR", 1, Release.unlocked)
    /\ UNCHANGED <<private, heap, use_soundtouch, soundtouch_tempo>>

\* lines 265-268: any other argv[0]
Unknown(name, uuid, val) ==
    /\ ApiFrame
    /\ rwlocks' = Release.held
    /\ status' = "FALSE"
    /\ hist' = ApiHist("unknown", name, uuid, val, "-ERR", 1, Release.unlocked)
    /\ UNCHANGED <<private, heap, use_soundtouch, soundtouch_tempo>>

\* the command as a whole: the checks in the order the code makes them
soundtouch_api_function(name, uuid, val) ==
    IF name = "" THEN Usage(name, uuid, val)
    ELSE IF Argc(name, uuid, val) < 2 THEN Usage(name, uuid, val)
    ELSE IF uuid # SessionUuid THEN NotFound(name, uuid, val)
    ELSE IF name = "enable" THEN Enable(uuid)
    ELSE IF name = "disable" THEN Disable
    ELSE IF name = "tempo"
         THEN IF Argc(name, uuid, val) < 3 THEN TempoUsage(uuid) ELSE Tempo(uuid, val)
    ELSE Unknown(name, uuid, val)

\* ---- API commands sent to the module --------------------------------------
CmdNames == {"enable", "disable", "tempo", "bogus"}
UuidArgs == {SessionUuid, "uuid-0"}
\* 3.0, 0.1, 1.2346, a word, "nan"
TempoTokens == {Dec(30000), Dec(1000), Dec(12346), Word, NanWord}

\* the empty command, a name alone, a name with a uuid, "tempo" with a value,
\* an unknown name with a third argument
ApiArgs ==
    {[name |-> "", uuid |-> "", val |-> NoTok]}
    \cup {[name |-> n, uuid |-> "", val |-> NoTok] : n \in CmdNames}
    \cup {[name |-> n, uuid |-> u, val |-> NoTok] : n \in CmdNames, u \in UuidArgs}
    \cup {[name |-> "tempo", uuid |-> u, val |-> v] : u \in UuidArgs, v \in TempoTokens}
    \cup {[name |-> "bogus", uuid |-> u, val |-> Word] : u \in UuidArgs}

ApiCommand ==
    \E a \in ApiArgs : soundtouch_api_function(a.name, a.uuid, a.val)

\* ---- do_config, lines 284-313 ----------------------------------------------
\* soundtouch.conf: absent, or giving min-tempo and max-tempo (NoTok: not given)
ConfigArgs ==
    {[file |-> FALSE, min |-> NoTok, max |-> NoTok],
     [file |-> TRUE, min |-> Dec(8000), max |-> Dec(15000)]}

do_config(cfg) ==
    IF ~cfg.file THEN DefaultGlobals
    ELSE [DefaultGlobals EXCEPT
            !.min_tempo = IF cfg.min = NoTok THEN @ ELSE atof(cfg.min),
            !.max_tempo = IF cfg.max = NoTok THEN @ ELSE atof(cfg.max)]

Process ==
    \E s \in SpeedArgs, r \in RateArgs, c \in ChannelArgs, n \in InlenArgs :
        \/ ProcessEnter(s, r, c, n)
        \/ ProcessCreate(s, r, c, n)
        \/ ProcessMemErr(s, r, c, n)

\* the calls of soundtouch_speed_process made while API commands are sent
ApiSpeedArgs == {0, 3}
ApiRateArgs == {8000}
ApiChannelArgs == {0}
ApiInlenArgs == {0, 8193}

ApiProcess ==
    \E s \in ApiSpeedArgs, r \in ApiRateArgs, c \in ApiChannelArgs, n \in ApiInlenArgs :
        \/ ProcessEnter(s, r, c, n)
        \/ ProcessCreate(s, r, c, n)
        \/ ProcessMemErr(s, r, c, n)

Next ==
    \/ Process
    \/ Configure
    \/ IngestChunk
    \/ IngestDone
    \/ DrainIter
    \/ DrainEmpty
    \/ DrainZero
    \/ Hangup
    \/ Disable

Spec == Init /\ [][Next]_vars

\* a call of soundtouch_speed_process that has begun keeps running on its thread
Step ==
    \/ Configure
    \/ IngestChunk
    \/ IngestDone
    \/ DrainIter
    \/ DrainEmpty
    \/ DrainZero

FairSpec == Spec /\ WF_vars(Step)

\* ---- the session with API commands and a configuration file ---------------
ApiInit ==
    /\ InitSession
    /\ globals \in {do_config(cfg) : cfg \in ConfigArgs}
    /\ conv = NoConv

ApiNext ==
    \/ ApiProcess
    \/ Configure
    \/ IngestChunk
    \/ IngestDone
    \/ DrainIter
    \/ DrainEmpty
    \/ DrainZero
    \/ Hangup
    \/ ApiCommand

ApiSpec == ApiInit /\ [][ApiNext]_vars

\* ---- disable and st_on_hangup on threads of their own ----------------------
\* The API command runs on the thread that received it and holds only a read
\* lock on the session; st_on_hangup runs on the session's thread; neither
\* they nor soundtouch_speed_process take a lock around the slot. Each is cut
\* where it reads the slot: the read of the slot is one step, the clearing of
\* the slot with the destruction of what was read is the next.

\* lines 242-244: use_soundtouch = "false"; sd = switch_channel_get_private
DisableBegin ==
    /\ thr["disable"].at = "out"
    /\ thr' = [thr EXCEPT !["disable"] = [at |-> "got", sd |-> private]]
    /\ use_soundtouch' = "false"
    /\ rwlocks' = rwlocks + 1
    /\ UNCHANGED <<private, heap, handlers, callvars, soundtouch_tempo, globals, conv>>

\* lines 79-80: sd = switch_channel_get_private
HangupBegin ==
    /\ thr["hangup"].at = "out"
    /\ thr' = [thr EXCEPT !["hangup"] = [at |-> "got", sd |-> private]]
    /\ UNCHANGED <<progvars, callvars, soundtouch_tempo, globals, rwlocks, conv>>

\* if (sd) { switch_channel_set_private(.., NULL); st_session_data_destroy(sd); }
\* with the sd the thread read
Finish(t) ==
    /\ thr[t].at = "got"
    /\ thr' = [thr EXCEPT ![t] = [at |-> "out", sd |-> NULL]]
    /\ IF thr[t].sd # NULL
       THEN /\ private' = NULL
            /\ heap' \in st_session_data_destroy(heap, thr[t].sd)
       ELSE UNCHANGED <<private, heap>>

\* lines 245-250 and 270
DisableFinish ==
    /\ Finish("disable")
    /\ rwlocks' = rwlocks - 1
    /\ UNCHANGED <<handlers, use_soundtouch, callvars, soundtouch_tempo, globals, conv>>

\* lines 81-87
HangupFinish ==
    /\ Finish("hangup")
    /\ UNCHANGED <<handlers, use_soundtouch, callvars, soundtouch_tempo, globals,
                   rwlocks, conv>>

\* the object the running call works on has not been freed
SdLive == sd # NULL /\ heap[sd].mem = "live"

\* the running call reads sd->rate, sd->st of an object that has been freed:
\* from here on its behaviour is undefined
UseAfterFree ==
    /\ pc \in {"config", "ingest", "drain"}
    /\ ~SdLive
    /\ pc' = "undefined"
    /\ UNCHANGED <<progvars, sd, speed, rate, channels, inlen, done, outbytes,
                   status, hist>>
    /\ UNCHANGED outside

ConcNext ==
    \/ ApiProcess
    \/ SdLive /\ Configure
    \/ SdLive /\ IngestChunk
    \/ SdLive /\ IngestDone
    \/ SdLive /\ DrainIter
    \/ SdLive /\ DrainEmpty
    \/ SdLive /\ DrainZero
    \/ UseAfterFree
    \/ DisableBegin
    \/ DisableFinish
    \/ HangupBegin
    \/ HangupFinish

ConcSpec == Init /\ [][ConcNext]_vars

\* ---- sample converters (lines 169-171 and 193-198) ------------------------
\* 32768.0f and the limits of int16_t
SCALE == 32768
INT16_MAX == 32767
INT16_MIN == -32768

\* a float sample f is kept as the integer f * SCALE * FloatSubdiv: there are
\* FloatSubdiv float values from one int16 value to the next
FloatSubdiv == 4

\* (SAMPLETYPE)(data[done + i]) / 32768.0f: the quotient s / SCALE is exact
\* in binary32, and is kept as s * FloatSubdiv
ToFloat(s) == s * FloatSubdiv

\* (int16_t)s of a float s inside the int16 range: the fraction is dropped
Truncate(x) ==
    IF x >= 0 THEN x \div FloatSubdiv ELSE -((-x) \div FloatSubdiv)

\* as ToInt16, without the two limits: the cast keeps the low 16 bits
ToInt16Wrap(x) ==
    ((Truncate(x) - INT16_MIN) % (2 * SCALE)) + INT16_MIN

\* s = fbuf[i] * 32768.0f; if (s > 32767.0f) s = 32767.0f;
\* if (s < -32768.0f) s = -32768.0f; obuf[i] = (int16_t)s
ToInt16(x) ==
    IF x > INT16_MAX * FloatSubdiv THEN INT16_MAX
    ELSE IF x < INT16_MIN * FloatSubdiv THEN INT16_MIN
    ELSE Truncate(x)

\* float samples the engine may hand back: inside and outside the unit range,
\* on and between the int16 values, and far outside
EngineOutArgs ==
    {k * 4099 : k \in -40..40}
    \cup {INT16_MAX * FloatSubdiv + d : d \in -1..1}
    \cup {INT16_MIN * FloatSubdiv + d : d \in -1..1}
    \cup {-(SCALE * 1024 * FloatSubdiv), SCALE * 1024 * FloatSubdiv}

\* a sample about to be converted: any int16 input sample (op "sample"), or a
\* float sample received from the engine (op "engine")
ConvInputs ==
    {[op |-> "sample", s |-> s, f |-> 0, o |-> 0] : s \in INT16_MIN..INT16_MAX}
    \cup {[op |-> "engine", s |-> 0, f |-> x, o |-> 0] : x \in EngineOutArgs}

ConvInit ==
    /\ InitSession
    /\ globals = DefaultGlobals
    /\ conv \in ConvInputs

\* line 170: the input sample becomes a float
ConvToFloat ==
    /\ conv.op = "sample"
    /\ conv' = [conv EXCEPT !.op = "float", !.f = ToFloat(conv.s)]
    /\ UNCHANGED <<progvars, callvars, soundtouch_tempo, globals, rwlocks, thr>>

\* lines 194-197: a float becomes an output sample: the float made from an
\* input sample (op "back"), or the one received from the engine (op "drained")
ConvToInt16 ==
    /\ conv.op \in {"float", "engine"}
    /\ conv' = [conv EXCEPT !.op = IF @ = "float" THEN "back" ELSE "drained",
                            !.o = ToInt16(conv.f)]
    /\ UNCHANGED <<progvars, callvars, soundtouch_tempo, globals, rwlocks, thr>>

ConvNext ==
    \/ ConvToFloat
    \/ ConvToInt16

ConvSpec == ConvInit /\ [][ConvNext]_vars

\* ==== the claims ============================================================

\* soundtouch_speed_process has returned SWITCH_STATUS_SUCCESS and nothing ran since
ReturnedOK == pc = "idle" /\ hist.op = "process" /\ status = "SUCCESS"

\* a call of soundtouch_speed_process is past its reconfiguration step
PastConfig == pc \in {"ingest", "drain"} \/ ReturnedOK

\* C1: in serialized runs of process, disable and hangup no state (and no engine)
\* is destroyed more than once; at every operation boundary the slot is empty or
\* holds a state that was created and is not destroyed; right after a disable or
\* a hangup the slot is empty.
C1_DestroyedOnceSlotLive ==
    /\ \A i \in Ids : heap[i].frees <= 1 /\ heap[i].deletes <= 1
    /\ pc = "idle" =>
         \/ private = NULL
         \/ /\ private \in Ids
            /\ heap[private].mem = "live"
            /\ heap[private].st = "live"
            /\ heap[private].frees = 0
    /\ (pc = "idle" /\ hist.op \in {"disable", "hangup"}) => private = NULL

\* C1 witness: a hangup has just destroyed the second state of a session whose
\* first state was destroyed earlier; each was released once.
C1_Witness ==
    /\ pc = "idle"
    /\ hist.op = "hangup"
    /\ hist.goneId = 2
    /\ private = NULL
    /\ heap[1].frees = 1
    /\ heap[2].frees = 1

\* C2: in a process call the engine is reconfigured once if the call created the
\* state or its triple (rate, channels with 0 as 1, speed limited to -2..2)
\* differs from the previous call's triple, and not at all if it repeats it.
C2_ReconfigOnChangeOnly ==
    (hist.op = "process" /\ PastConfig) =>
        hist.nconfig = (IF hist.created \/ ~hist.same THEN 1 ELSE 0)

\* C2 witness: a call that repeated the previous call's triple on the same state
\* has returned without any reconfiguration.
C2_Witness ==
    /\ ReturnedOK
    /\ ~hist.created
    /\ hist.prevOp = "process"
    /\ hist.same
    /\ hist.nconfig = 0
    /\ hist.nput > 0

\* C3: at every operation boundary an existing state's stored rate, channels and
\* speed are what was last pushed into its engine, with channels >= 1 and speed
\* in -2..2; and once the ingest of a call can push samples, the engine holds
\* the call's normalized parameters (a reconfiguration precedes the first push).
C3_StoredIsPushed ==
    /\ (pc = "idle" /\ private # NULL) =>
         LET o == heap[private] IN
           /\ o.rate = o.e_rate
           /\ o.channels = o.e_channels
           /\ TempoOf(o.current_speed) = o.e_tempo
           /\ o.channels >= 1
           /\ o.current_speed \in ST_MIN_SPEED..ST_MAX_SPEED
    /\ pc \in {"ingest", "drain"} =>
         LET o == heap[sd] IN
           /\ o.e_rate = rate /\ o.rate = rate
           /\ o.e_channels = channels /\ o.channels = channels
           /\ o.e_tempo = TempoOf(speed) /\ o.current_speed = speed
    /\ hist.nput > 0 => (hist.op = "process" /\ PastConfig)

\* C3 witness: a call on an existing state changed the parameters, pushed
\* samples, and returned.
C3_Witness ==
    /\ ReturnedOK
    /\ ~hist.created
    /\ hist.nconfig = 1
    /\ hist.nput > 0
    /\ heap[private].e_rate = 16000
    /\ heap[private].rate = 16000

\* C4: the ingest phase of every process call delivers the whole input: chunks of
\* at most 8192 samples, and the frame counts passed to putSamples, times
\* channels, add up to inlen. (The statement as claimed; the code violates it.)
C4_AllInputDelivered ==
    ReturnedOK =>
        /\ hist.maxbatch <= ST_BUFFER_SAMPLES
        /\ hist.frames * channels = inlen

\* C5 as claimed: when process returns success the engine holds no ready frames
\* and the bytes appended are 2 * channels * (frames that were ready).
C5_EngineEmptyOnReturn ==
    ReturnedOK =>
        /\ heap[sd].ready = 0
        /\ outbytes = 2 * channels * hist.readyAtDrain

\* C5 as amended: when process returns success, every frame pulled was appended
\* (bytes = 2 * channels * frames pulled, in requests of at most 8192/channels
\* frames), the frames pulled and the frames still ready add up to those ready
\* when the drain began, and frames are left ready only if the drain loop ended
\* on a receiveSamples that returned 0.
C5_DrainedUnlessZeroPull ==
    ReturnedOK =>
        /\ outbytes = 2 * channels * hist.pulled
        /\ hist.pulled + heap[sd].ready = hist.readyAtDrain
        /\ hist.maxreq * channels <= ST_BUFFER_SAMPLES
        /\ heap[sd].ready # 0 => hist.stop = "zero"
        /\ hist.stop = "empty" => outbytes = 2 * channels * hist.readyAtDrain

\* C5 witness: more frames were ready than one capped request takes; the drain
\* pulled them all in several requests and left the engine empty.
C5_Witness ==
    /\ ReturnedOK
    /\ hist.niter >= 2
    /\ hist.readyAtDrain > ST_BUFFER_SAMPLES \div channels
    /\ heap[sd].ready = 0
    /\ outbytes = 2 * channels * hist.readyAtDrain

\* C6: every process call runs to completion: the ingest loop makes
\* ceil(inlen / 8192) putSamples calls, the drain loop makes no more iterations
\* than there were frames ready, and a call that has begun returns, also when
\* receiveSamples returns 0 frames from an engine that reports some ready.
C6_RunsToCompletion ==
    /\ [](ReturnedOK =>
            /\ hist.nput = (inlen + ST_BUFFER_SAMPLES - 1) \div ST_BUFFER_SAMPLES
            /\ hist.niter <= hist.readyAtDrain)
    /\ ((pc # "idle") ~> (pc = "idle"))

\* C6 witness: a call with two chunks returned after receiveSamples gave 0 frames
\* although the engine still held one.
C6_Witness ==
    /\ ReturnedOK
    /\ hist.nput = 2
    /\ hist.stop = "zero"
    /\ heap[sd].ready > 0
    /\ channels = 1

\* C7: after a disable that destroyed a state the slot is empty, and the next
\* process call creates another state (not the destroyed one) with a live engine
\* and sentinel fields 0, 0, 0, and reconfigures it, also when its parameters
\* are those last applied before the disable.
C7_FreshStateAfterDisable ==
    /\ (pc = "idle" /\ hist.op = "disable") => private = NULL
    /\ (hist.op = "process" /\ hist.prevOp = "disable" /\ hist.goneId # NULL
            /\ status # "MEMERR") =>
         /\ hist.created
         /\ sd # hist.goneId
         /\ private = sd
         /\ heap[hist.goneId].mem = "freed"
         /\ heap[sd].mem = "live" /\ heap[sd].st = "live"
         /\ pc = "config" =>
              /\ heap[sd].rate = 0
              /\ heap[sd].channels = 0
              /\ heap[sd].current_speed = 0
         /\ PastConfig => hist.nconfig = 1

\* C7 witness: the call after the disable asked for exactly the triple applied
\* before the disable, and reconfigured the new engine.
C7_Witness ==
    /\ ReturnedOK
    /\ hist.prevOp = "disable"
    /\ hist.created
    /\ hist.goneId = 1
    /\ sd = 2
    /\ hist.goneTriple = Triple(rate, channels, speed)
    /\ hist.nconfig = 1

\* C8: the state handler table is added to the channel at most once over the
\* session, also when the state is created again after a disable. (The statement
\* as claimed; the code violates it.)
C8_HandlerAddedOnce ==
    handlers <= 1

\* C9: a hangup with state present destroys that state exactly once and empties
\* the slot; a hangup with the slot already empty changes nothing of the session;
\* both return success.
C9_HangupIdempotent ==
    /\ []((pc = "idle" /\ hist.op = "hangup") =>
            /\ private = NULL
            /\ status = "SUCCESS"
            /\ hist.goneId # NULL =>
                 /\ heap[hist.goneId].mem = "freed"
                 /\ heap[hist.goneId].frees = 1
                 /\ heap[hist.goneId].deletes = 1)
    /\ [][(Hangup /\ private = NULL) =>
            (UNCHANGED progvars /\ status' = "SUCCESS")]_vars

\* C9 witness: a second hangup arrived after the first had destroyed the state;
\* it found the slot empty and the state is still released once.
C9_Witness ==
    /\ pc = "idle"
    /\ hist.op = "hangup"
    /\ hist.prevOp = "hangup"
    /\ hist.goneId = NULL
    /\ heap[1].mem = "freed"
    /\ heap[1].frees = 1

\* C10: a process call that reconfigures pushes the tempo 1.0 + 0.25 * (speed
\* limited to -2..2), one of 0.5, 0.75, 1.0, 1.25, 1.5 (here in hundredths);
\* no speed is rejected, and a first call with speed 0 pushes 1.0.
C10_TempoOfClampedSpeed ==
    (hist.op = "process" /\ PastConfig) =>
        LET a == hist.speedArg
            lim == IF a > 2 THEN 2 ELSE IF a < -2 THEN -2 ELSE a
        IN /\ hist.nconfig >= 1 =>
                /\ hist.tempo = 100 + 25 * lim
                /\ heap[sd].e_tempo = hist.tempo
                /\ hist.tempo \in {50, 75, 100, 125, 150}
           /\ (hist.created /\ a = 0) => heap[sd].e_tempo = 100
           /\ heap[sd].e_tempo = 100 + 25 * lim

\* C10 witness: a call with the out-of-range speed -3 reconfigured an existing
\* state and pushed tempo 0.5.
C10_Witness ==
    /\ ReturnedOK
    /\ ~hist.created
    /\ hist.speedArg = -3
    /\ hist.nconfig = 1
    /\ heap[sd].e_tempo = 50

\* C11: an int16 sample turned into a float and back comes out within 1 of
\* what went in, and every float turned into an output sample, also one
\* outside the unit range, gives a value in -32768..32767: the limit itself
\* above and below the range (never a wrapped value), and inside the range
\* the int16 value next to it towards zero.
C11_ConvertersSaturate ==
    /\ conv.op = "back" => (conv.o - conv.s) \in -1..1
    /\ conv.op \in {"back", "drained"} =>
          /\ conv.o \in INT16_MIN..INT16_MAX
          /\ conv.f > INT16_MAX * FloatSubdiv => conv.o = INT16_MAX
          /\ conv.f < INT16_MIN * FloatSubdiv => conv.o = INT16_MIN
          /\ conv.f \in (INT16_MIN * FloatSubdiv)..(INT16_MAX * FloatSubdiv) =>
                (conv.o * FloatSubdiv - conv.f) \in (1 - FloatSubdiv)..(FloatSubdiv - 1)

\* a float above the int16 range has been converted and came out as 32767
C11_Witness ==
    /\ conv.op = "drained"
    /\ conv.f > INT16_MAX * FloatSubdiv
    /\ conv.o = INT16_MAX

\* the last operation was a tempo command that carried a value
TempoStored == hist.op = "tempo"

\* v limited to lo..hi
Limited(v, lo, hi) == IF v < lo THEN lo ELSE IF v > hi THEN hi ELSE v

\* the three-decimal renderings of the tempos from lo to hi (ten-thousandths)
Rendered(lo, hi) == {Fmt3(Fin(10 * th)) : th \in ((lo + 9) \div 10)..(hi \div 10)}

\* C12: a tempo command carrying a value stores that value limited to 0.5..2.0
\* and written with three decimals as soundtouch_tempo (3.0 gives "2.000",
\* 0.1 gives "0.500"), sets use_soundtouch to "true" and is answered +OK with
\* success: whatever the value, what is stored is a tempo from 0.5 to 2.0.
C12_TempoStoredClamped ==
    TempoStored =>
        /\ use_soundtouch = "true"
        /\ status = "SUCCESS"
        /\ hist.reply = "+OK"
        /\ soundtouch_tempo \in Rendered(TempoFloor, TempoCeil)
        /\ hist.val.kind = "dec" =>
              soundtouch_tempo = Fmt3(Fin(Limited(hist.val.v, TempoFloor, TempoCeil)))
        /\ hist.val = Dec(30000) => soundtouch_tempo = "2.000"
        /\ hist.val = Dec(1000) => soundtouch_tempo = "0.500"

\* C13: the tempo stored by a tempo command carrying a numeral lies between
\* the configured min-tempo and max-tempo.
C13_ConfiguredLimitsGovern ==
    (TempoStored /\ hist.val.kind = "dec") =>
        soundtouch_tempo \in Rendered(globals.min_tempo.v, globals.max_tempo.v)

\* the session's configuration variables, its slot and its state objects
sessionvars == <<private, heap, handlers, use_soundtouch, soundtouch_tempo>>

\* C14: a command that ends with a usage message (empty command, no session
\* id, tempo without a value) or with "session not found" changes no variable
\* of the session, not the slot and no state object; it is answered -USAGE or
\* -ERR respectively.
C14_FailedCommandMutatesNothing ==
    [][(hist'.op \in {"usage", "notfound"}) =>
          /\ UNCHANGED sessionvars
          /\ hist'.reply = (IF hist'.op = "usage" THEN "-USAGE" ELSE "-ERR")]_vars

\* "soundtouch tempo <uuid>" without a value was answered with the usage
\* message while the session had a state and both variables set
C14_Witness ==
    /\ hist.op = "usage"
    /\ hist.cmd = "tempo"
    /\ hist.uuid = SessionUuid
    /\ private # NULL
    /\ use_soundtouch = "true"
    /\ soundtouch_tempo # "unset"

\* the last operation was an API command
ApiRan == hist.op \in {"enable", "disable", "tempo", "usage", "notfound", "unknown"}

\* the command named a subcommand that is none of enable, disable, tempo
UnknownName == hist.cmd \notin {"", "enable", "disable", "tempo"}

\* C15 as stated: a command returns the failure status exactly when its
\* subcommand name is not a known one, and then it is answered -ERR; every
\* other command returns success.
C15_FailureIffUnknownName ==
    ApiRan =>
        /\ (status = "FALSE") <=> UnknownName
        /\ UnknownName => hist.reply = "-ERR"
        /\ ~UnknownName => status = "SUCCESS"

\* C15 amended: a command returns the failure status exactly when its
\* subcommand name is not a known one and its session id was given and
\* resolved, and then it is answered -ERR; an unknown name without a session
\* id is answered -USAGE with success, an unknown name with a session id that
\* does not resolve is answered -ERR with success, and every other command
\* returns success.
C15_FailureIffUnknownOnSession ==
    ApiRan =>
        /\ (status = "FALSE") <=> (UnknownName /\ hist.uuid = SessionUuid)
        /\ status \in {"FALSE", "SUCCESS"}
        /\ status = "FALSE" => hist.reply = "-ERR"
        /\ (UnknownName /\ hist.uuid = "") =>
              (hist.reply = "-USAGE" /\ status = "SUCCESS")
        /\ (UnknownName /\ hist.uuid \notin {"", SessionUuid}) =>
              (hist.reply = "-ERR" /\ status = "SUCCESS")

\* an unknown subcommand for the existing session was answered -ERR with the
\* failure status
C15_Witness ==
    /\ hist.op = "unknown"
    /\ UnknownName
    /\ hist.uuid = SessionUuid
    /\ hist.reply = "-ERR"
    /\ status = "FALSE"

\* C16: enable and tempo set use_soundtouch to "true" (tempo also the tempo
\* variable) and leave the slot and every state object as they were; disable
\* sets use_soundtouch to "false", destroys the state in the slot if there is
\* one, leaves the slot empty and the tempo variable as it was; no other
\* command changes the slot.
C16_CommandFrames ==
    [][/\ (hist'.op \in {"enable", "tempo"}) =>
             /\ UNCHANGED <<private, heap, handlers>>
             /\ use_soundtouch' = "true"
             /\ hist'.op = "enable" => UNCHANGED soundtouch_tempo
       /\ (hist'.op = "disable") =>
             /\ use_soundtouch' = "false"
             /\ private' = NULL
             /\ UNCHANGED <<soundtouch_tempo, handlers>>
             /\ \A i \in Ids :
                   IF i = private
                   THEN heap'[i].mem = "freed" /\ heap'[i].frees = heap[i].frees + 1
                   ELSE heap'[i] = heap[i]
       /\ (ApiRan' /\ private' # private) => hist'.op = "disable"]_vars

\* disable destroyed the state of a session whose tempo variable was set
C16_Witness ==
    /\ hist.op = "disable"
    /\ hist.goneId # NULL
    /\ heap[hist.goneId].mem = "freed"
    /\ private = NULL
    /\ use_soundtouch = "false"
    /\ soundtouch_tempo # "unset"

\* a call of soundtouch_speed_process has returned SWITCH_STATUS_MEMERR and
\* nothing ran since
ReturnedMemErr == pc = "idle" /\ hist.op = "process" /\ status = "MEMERR"

C18_NoUseOfDestroyedState ==
    /\ pc # "undefined"
    /\ \A i \in Ids : heap[i].frees <= 1

\* C19: in every ingest iteration the chunk converted into fbuf, and in every
\* drain iteration the got * channels samples received into fbuf and
\* converted into obuf, are at most 8192, the size of both buffers, for every
\* channel count and whatever the engine hands back within what was asked.
C19_BuffersNeverOverrun ==
    /\ hist.maxbatch <= ST_BUFFER_SAMPLES
    /\ hist.maxtotal <= ST_BUFFER_SAMPLES
    /\ pc = "ingest" /\ done < inlen => Batch \in 1..ST_BUFFER_SAMPLES
    /\ pc = "drain" => Avail * channels <= ST_BUFFER_SAMPLES

\* a call with three channels has filled fbuf with a whole chunk of 8192
\* samples on the way in and received 2730 frames (8190 samples) on the way out
C19_Witness ==
    /\ channels = 3
    /\ hist.maxbatch = ST_BUFFER_SAMPLES
    /\ hist.maxtotal = 3 * (ST_BUFFER_SAMPLES \div 3)

\* C20: a command that located its session released the read lock exactly
\* once before it returned, a command whose lookup failed or was never made
\* released nothing, and between operations the API holds no read lock on
\* the session.
C20_LockReleasedOnce ==
    /\ rwlocks = 0
    /\ ApiRan =>
          /\ hist.located = (IF hist.uuid = SessionUuid THEN 1 ELSE 0)
          /\ hist.unlocked = hist.located

\* the usage reply of "tempo <uuid>" came from a command that had located the
\* session, and the lock is released
C20_Witness ==
    /\ hist.op = "usage"
    /\ hist.cmd = "tempo"
    /\ hist.located = 1
    /\ hist.unlocked = 1
    /\ rwlocks = 0

====
